---------------------------- MODULE Spec2Model ----------------------------
(***************************************************************************)
(* Model of file_compare_pyspark.py: a script that loads a CSV into a      *)
(* Spark DataFrame, runs a fixed battery of data-quality checks, and       *)
(* collects one result dictionary per check in the list `results`.         *)
(*                                                                         *)
(* A cell is Null, a number Num(n) (integers only in this model), or a     *)
(* string Str(s), s a sequence of one-character strings.  Spark column     *)
(* expressions are three-valued: a predicate is "true", "false" or "null", *)
(* and DataFrame.filter keeps the rows whose predicate is "true".          *)
(***************************************************************************)
EXTENDS Integers, Sequences, FiniteSets, TLC

VARIABLES columns, rows, results, written, report, pc, run, prev

vars == <<columns, rows, results, written, report, pc, run, prev>>

---------------------------------------------------------------------------
(* Cells and strings *)

Null == [k |-> "null"]
Num(n) == [k |-> "num", n |-> n]
Str(s) == [k |-> "str", s |-> s]

IsNull(v) == v.k = "null"

Digits == <<"0", "1", "2", "3", "4", "5", "6", "7", "8", "9">>
Upper == <<"A", "B", "C", "D", "E", "F", "G", "H", "I", "J", "K", "L", "M",
           "N", "O", "P", "Q", "R", "S", "T", "U", "V", "W", "X", "Y", "Z">>
Lower == <<"a", "b", "c", "d", "e", "f", "g", "h", "i", "j", "k", "l", "m",
           "n", "o", "p", "q", "r", "s", "t", "u", "v", "w", "x", "y", "z">>

ToSet(s) == {s[i] : i \in DOMAIN s}

IsDigit(c) == c \in ToSet(Digits)

DigitVal(c) == (CHOOSE i \in DOMAIN Digits : Digits[i] = c) - 1

IsDigits(s) == Len(s) > 0 /\ \A i \in DOMAIN s : IsDigit(s[i])

RECURSIVE ParseNat(_)
ParseNat(s) ==
    IF Len(s) = 0 THEN 0
    ELSE 10 * ParseNat(SubSeq(s, 1, Len(s) - 1)) + DigitVal(s[Len(s)])

RECURSIVE NatDigits(_)
NatDigits(n) ==
    IF n < 10 THEN <<Digits[n + 1]>>
    ELSE NatDigits(n \div 10) \o <<Digits[(n % 10) + 1]>>

IntText(n) == IF n < 0 THEN <<"-">> \o NatDigits(-n) ELSE NatDigits(n)

LowerChar(c) ==
    IF c \in ToSet(Upper)
    THEN Lower[CHOOSE i \in DOMAIN Upper : Upper[i] = c]
    ELSE c

LowerText(s) == [i \in DOMAIN s |-> LowerChar(s[i])]

RECURSIVE TrimLeft(_)
TrimLeft(s) ==
    IF Len(s) > 0 /\ s[1] = " " THEN TrimLeft(Tail(s)) ELSE s

RECURSIVE TrimRight(_)
TrimRight(s) ==
    IF Len(s) > 0 /\ s[Len(s)] = " "
    THEN TrimRight(SubSeq(s, 1, Len(s) - 1))
    ELSE s

TrimText(s) == TrimRight(TrimLeft(s))

(* The text of a string literal of the script, as a sequence of characters. *)
Chars(lit) ==
    CASE lit = "wet" -> <<"w", "e", "t">>
      [] lit = "Soft" -> <<"S", "o", "f", "t">>
      [] lit = "Medium" -> <<"M", "e", "d", "i", "u", "m">>
      [] lit = "Hard" -> <<"H", "a", "r", "d">>
      [] lit = "Wet" -> <<"W", "e", "t">>
      [] lit = "Intermediate" ->
            <<"I", "n", "t", "e", "r", "m", "e", "d", "i", "a", "t", "e">>

---------------------------------------------------------------------------
(* Spark column expressions *)

(* Column.cast("string"): numbers are rendered in decimal. *)
CastString(v) ==
    CASE v.k = "null" -> Null
      [] v.k = "num" -> Str(IntText(v.n))
      [] v.k = "str" -> v

(* Parsing done by a cast of a string to a numeric type: surrounding     *)
(* spaces are dropped, an optional sign and decimal digits are read, and *)
(* anything else yields null.                                            *)
ParseNumber(s) ==
    LET t == TrimText(s)
    IN  IF IsDigits(t) THEN Num(ParseNat(t))
        ELSE IF Len(t) > 1 /\ t[1] = "-" /\ IsDigits(Tail(t))
             THEN Num(-ParseNat(Tail(t)))
             ELSE Null

(* Column.cast("double") *)
CastDouble(v) ==
    CASE v.k = "null" -> Null
      [] v.k = "num" -> v
      [] v.k = "str" -> ParseNumber(v.s)

(* Column.cast("long") *)
CastLong(v) ==
    CASE v.k = "null" -> Null
      [] v.k = "num" -> v
      [] v.k = "str" -> ParseNumber(v.s)

(* F.lower, F.trim: null in, null out; a number is first cast to string. *)
lower(v) == IF IsNull(v) THEN Null ELSE Str(LowerText(CastString(v).s))
trim(v) == IF IsNull(v) THEN Null ELSE Str(TrimText(CastString(v).s))

Bool3(b) == IF b THEN "true" ELSE "false"

Not3(p) == CASE p = "true" -> "false" [] p = "false" -> "true" [] OTHER -> "null"

Or3(p, q) ==
    IF p = "true" \/ q = "true" THEN "true"
    ELSE IF p = "false" /\ q = "false" THEN "false" ELSE "null"

And3(p, q) ==
    IF p = "false" \/ q = "false" THEN "false"
    ELSE IF p = "true" /\ q = "true" THEN "true" ELSE "null"

isNull(v) == Bool3(IsNull(v))
isNotNull(v) == Bool3(~IsNull(v))

(* Comparisons of numeric cells; null if either side is null. *)
Lt3(a, b) == IF IsNull(a) \/ IsNull(b) THEN "null" ELSE Bool3(a.n < b.n)
Gt3(a, b) == IF IsNull(a) \/ IsNull(b) THEN "null" ELSE Bool3(a.n > b.n)
Le3(a, b) == IF IsNull(a) \/ IsNull(b) THEN "null" ELSE Bool3(a.n <= b.n)
Ge3(a, b) == IF IsNull(a) \/ IsNull(b) THEN "null" ELSE Bool3(a.n >= b.n)

(* Equality of string cells; null if either side is null. *)
Eq3(a, b) == IF IsNull(a) \/ IsNull(b) THEN "null" ELSE Bool3(a.s = b.s)

between(v, lo, hi) == And3(Ge3(v, lo), Le3(v, hi))

(* Column.isin(list of string literals) *)
isin(v, texts) == IF IsNull(v) THEN "null" ELSE Bool3(v.s \in texts)

TsDigits == 13

(* Column.rlike(r"^\d{13}$") *)
rlike13(v) ==
    IF IsNull(v) THEN "null"
    ELSE Bool3(Len(v.s) = TsDigits /\ \A i \in DOMAIN v.s : IsDigit(v.s[i]))

(* DataFrame.filter keeps a row, in the frame's order, if the condition *)
(* is true of it; a row whose condition is false or null is dropped.   *)
Keeps(p) == p = "true"

---------------------------------------------------------------------------
(* Helpers of the script *)

Min(a, b) == IF a < b THEN a ELSE b

(* All enumerations of a finite set as a sequence without repetition: the *)
(* row orders a frame produced by a shuffle (groupBy, Window) may have.   *)
Orderings(S) ==
    {s \in [1..Cardinality(S) -> S] : \A i, j \in DOMAIN s : i # j => s[i] # s[j]}

(* A DataFrame: its rows in order and the names of its columns. *)
Frame(rs, cs) == [k |-> "df", rows |-> rs, cols |-> cs]

(* A plain integer handed to add_result in place of a DataFrame. *)
Count(n) == [k |-> "int", n |-> n]

None == [k |-> "none"]
Path(name) == [k |-> "path", dir |-> "dq_report/violations", name |-> name]

NoNote == [text |-> "", cols |-> <<>>]
Note(text, cs) == [text |-> text, cols |-> cs]

SampleN == 20

(* Row.asDict() of a row of df.select over cs *)
Select(r, cs) == [c \in ToSet(cs) |-> r[c]]

sample_rows(df, cols, n) ==
    LET cs == SelectSeq(cols, LAMBDA c : c \in df.cols)
    IN  IF cs = <<>> THEN <<>>
        ELSE [i \in 1..Min(n, Len(df.rows)) |-> Select(df.rows[i], cs)]

write_violations(df, name) ==
    IF Len(df.rows) = 0 THEN None ELSE Path(name)

(* Mutant of StatusOf: a single violation still passes. *)
StatusOf_OneAllowed(count) == IF count <= 1 THEN "PASS" ELSE "FAIL"

StatusOf(count) == IF count = 0 THEN "PASS" ELSE "FAIL"

(* The dictionary add_result appends; df_count is Count(n) or a Frame. *)
ResultOf(name, df_count, sample_cols, note) ==
    LET isFrame == df_count.k = "df"
        count == IF isFrame THEN Len(df_count.rows) ELSE df_count.n
    IN  [name |-> name,
         violations |-> count,
         status |-> StatusOf(count),
         sample_cols |-> sample_cols,
         sample |-> IF isFrame THEN sample_rows(df_count, sample_cols, SampleN)
                    ELSE <<>>,
         csv |-> IF isFrame THEN write_violations(df_count, name) ELSE None,
         note |-> note]

add_result(res, name, df_count, sample_cols, note) ==
    Append(res, ResultOf(name, df_count, sample_cols, note))

(* The violations directories on disk after add_result: mode("overwrite"). *)
Exported(files, name, df_count) ==
    IF df_count.k = "df" /\ Len(df_count.rows) > 0 THEN files \cup {name} ELSE files

---------------------------------------------------------------------------
(* The checks *)

required == <<"event_id", "session", "lap", "timestamp_ms",
              "driver", "team", "car_no", "tyre">>

(* Mutant of missing: the last required column is not looked at. *)
missing_SkipLast(cols) ==
    SelectSeq(SubSeq(required, 1, Len(required) - 1), LAMBDA c : c \notin cols)

missing(cols) == SelectSeq(required, LAMBDA c : c \notin cols)

pk == <<"event_id", "session", "car_no", "lap">>

(* groupBy over keys, then count(): one row per distinct key, with its count. *)
GroupCounts(df, keys) ==
    {Select(df[i], keys) @@
        ("count" :> Num(Cardinality({j \in DOMAIN df :
                                       Select(df[j], keys) = Select(df[i], keys)})))
     : i \in DOMAIN df}

(* Mutant of dupes: count >= 1 in place of count > 1. *)
dupes_AnyGroup(df) == {g \in GroupCounts(df, pk) : Ge3(g["count"], Num(1)) = "true"}

dupes(df) == {g \in GroupCounts(df, pk) : Gt3(g["count"], Num(1)) = "true"}

bad_ts(df) ==
    SelectSeq(df, LAMBDA r : Keeps(Or3(isNull(r.timestamp_ms),
                              Not3(rlike13(CastString(r.timestamp_ms))))))

need == <<"event_id", "session", "car_no", "lap", "timestamp_ms">>

partitionBy == <<"event_id", "session", "car_no">>

(* orderBy(lap.cast("long")) ascending: nulls first. *)
OrderedBefore(a, b) ==
    IF IsNull(a) THEN ~IsNull(b) ELSE ~IsNull(b) /\ a.n < b.n

(* The row orders the Window may process df in: the rows of a partition *)
(* are adjacent and sorted by the order key; the order of the           *)
(* partitions, and of rows with equal order keys, is not determined.    *)
WindowOrders(df) ==
    LET part(i) == Select(df[i], partitionBy)
        key(i) == CastLong(df[i].lap)
    IN  {o \in Orderings(DOMAIN df) :
            /\ \A a, b, c \in DOMAIN o :
                 (a < b /\ b < c /\ part(o[a]) = part(o[c])) => part(o[b]) = part(o[a])
            /\ \A a, b \in DOMAIN o :
                 (a < b /\ part(o[a]) = part(o[b])) => ~OrderedBefore(key(o[b]), key(o[a]))}

(* d2: df with lap_long, ts_long and their lag over the window, the rows *)
(* taken in window order o.                                              *)
d2(df, o) ==
    LET ext(i) == df[i] @@ ("lap_long" :> CastLong(df[i].lap))
                        @@ ("ts_long" :> CastLong(df[i].timestamp_ms))
        hasPrev(a) == a > 1 /\ Select(df[o[a]], partitionBy) = Select(df[o[a - 1]], partitionBy)
    IN  [a \in DOMAIN o |->
            ext(o[a]) @@ ("prev_lap" :> IF hasPrev(a) THEN ext(o[a - 1]).lap_long ELSE Null)
                      @@ ("prev_ts" :> IF hasPrev(a) THEN ext(o[a - 1]).ts_long ELSE Null)]

d2_cols(cols) == cols \cup {"lap_long", "ts_long", "prev_lap", "prev_ts"}

lap_back(d) ==
    SelectSeq(d, LAMBDA r : Keeps(And3(isNotNull(r.prev_lap), Lt3(r.lap_long, r.prev_lap))))

ts_back(d) ==
    SelectSeq(d, LAMBDA r : Keeps(And3(isNotNull(r.prev_ts), Lt3(r.ts_long, r.prev_ts))))

AirLo == 0
AirHi == 30
TrackLo == -20
TrackHi == 80
SocLoTenths == 6
SocHi == 40
FuelLo == 0
WetLo == 100
WetHi == 250

(* Mutant of bad_air: the upper bound is exclusive. *)
bad_air_ExclusiveHi(df) ==
    SelectSeq(df, LAMBDA r :
        Keeps(Or3(Or3(isNull(CastDouble(r.air_temp_c)),
                Lt3(CastDouble(r.air_temp_c), Num(AirLo))),
            Ge3(CastDouble(r.air_temp_c), Num(AirHi)))))

bad_air(df) ==
    SelectSeq(df, LAMBDA r :
        Keeps(Or3(Or3(isNull(CastDouble(r.air_temp_c)),
                Lt3(CastDouble(r.air_temp_c), Num(AirLo))),
            Gt3(CastDouble(r.air_temp_c), Num(AirHi)))))

bad_track(df) ==
    SelectSeq(df, LAMBDA r :
        Keeps(Or3(Or3(isNull(CastDouble(r.track_temp_c)),
                Lt3(CastDouble(r.track_temp_c), Num(TrackLo))),
            Gt3(CastDouble(r.track_temp_c), Num(TrackHi)))))

(* The lower bound is 0.6: for an integer v, v < 0.6 iff 10 * v < 6. *)
Tenths(v) == IF IsNull(v) THEN Null ELSE Num(10 * v.n)

bad_soc(df) ==
    SelectSeq(df, LAMBDA r :
        Keeps(Or3(Or3(isNull(CastDouble(r.battery_soc)),
                Lt3(Tenths(CastDouble(r.battery_soc)), Num(SocLoTenths))),
            Gt3(CastDouble(r.battery_soc), Num(SocHi)))))

bad_fuel(df) ==
    SelectSeq(df, LAMBDA r :
        Keeps(Or3(isNull(CastDouble(r.fuel_kg)),
            Lt3(CastDouble(r.fuel_kg), Num(FuelLo)))))

(* Mutant of is_wet: the tyre is not trimmed. *)
is_wet_NoTrim(r) == Eq3(lower(r.tyre), Str(Chars("wet")))

is_wet(r) == Eq3(lower(trim(r.tyre)), Str(Chars("wet")))

v8(r) == CastDouble(r.sensor_0008_val)

bad_wet(df) ==
    SelectSeq(df, LAMBDA r :
        Keeps(And3(is_wet(r),
                   Or3(isNull(v8(r)), Not3(between(v8(r), Num(WetLo), Num(WetHi)))))))

allowed == <<"Soft", "Medium", "Hard", "Wet", "Intermediate">>

bad_tyre(df) ==
    SelectSeq(df, LAMBDA r :
        Keeps(Not3(isin(lower(r.tyre),
                  {LowerText(Chars(allowed[i])) : i \in DOMAIN allowed}))))

---------------------------------------------------------------------------
(* The HTML summary: one entry per result *)

_safe_str(v) == IF IsNull(v) THEN <<>> ELSE CastString(v).s

(* r.get(c): None for a column the sampled row does not have. *)
Get(r, c) == IF c \in DOMAIN r THEN r[c] ELSE Null

html_table(sample, cols) ==
    IF sample = <<>> THEN "No sample rows"
    ELSE [head |-> cols,
          body |-> [i \in DOMAIN sample |->
                      [j \in DOMAIN cols |-> _safe_str(Get(sample[i], cols[j]))]]]

summary_row(r) ==
    [class |-> IF r.status = "PASS" THEN "pass" ELSE "fail",
     name |-> r.name,
     badge |-> r.status,
     cnt |-> r.violations,
     link |-> IF r.csv = None THEN None ELSE r.csv,
     note |-> r.note,
     sample |-> IF r.sample # <<>> THEN html_table(r.sample, r.sample_cols)
                ELSE "No sample rows"]

---------------------------------------------------------------------------
(* Datasets *)

(* Sizes of the datasets explored: rows of a dataset that varies the key   *)
(* and timestamp columns, rows of one that varies a single checked column, *)
(* rows of one that varies tyre and sensor_0008_val together, and columns  *)
(* absent from the file.  Timestamps are small integers, so no timestamp   *)
(* of these datasets has 13 digits.                                        *)
MaxRows == 3
MaxCellRows == 2
MaxPairRows == 1
MaxMissing == 3

AllCols == {"event_id", "session", "lap", "timestamp_ms", "driver", "team",
            "car_no", "tyre", "air_temp_c", "track_temp_c", "battery_soc",
            "fuel_kg", "sensor_0008_val"}

Text(lit) ==
    CASE lit = "abc" -> <<"a", "b", "c">>
      [] lit = "15" -> <<"1", "5">>
      [] lit = "-1" -> <<"-", "1">>
      [] lit = "soft" -> <<"s", "o", "f", "t">>
      [] lit = " Soft " -> <<" ", "S", "o", "f", "t", " ">>
      [] lit = "MEDIUM" -> <<"M", "E", "D", "I", "U", "M">>
      [] lit = "Slick" -> <<"S", "l", "i", "c", "k">>
      [] lit = "WET" -> <<"W", "E", "T">>
      [] lit = " Wet " -> <<" ", "W", "e", "t", " ">>
      [] lit = "dry" -> <<"d", "r", "y">>
      [] lit = "150" -> <<"1", "5", "0">>

(* A row that passes every check but the 13-digit one. *)
BaseRow ==
    [event_id |-> Num(1), session |-> Num(1), car_no |-> Num(7), lap |-> Num(1),
     timestamp_ms |-> Num(1), air_temp_c |-> Num(15), track_temp_c |-> Num(25),
     battery_soc |-> Num(20), fuel_kg |-> Num(50), tyre |-> Str(Chars("Soft")),
     sensor_0008_val |-> Num(150)]

SeqsUpTo(S, n) == UNION {[1..k -> S] : k \in 0..n}

(* Rows of car 7 with laps 1, 1, 2, a null lap and a null timestamp, *)
(* and a row of car 9.                                              *)
KeyRows ==
    {BaseRow,
     [BaseRow EXCEPT !.timestamp_ms = Num(2)],
     [BaseRow EXCEPT !.lap = Num(2)],
     [BaseRow EXCEPT !.car_no = Num(9)],
     [BaseRow EXCEPT !.lap = Null, !.timestamp_ms = Num(2)],
     [BaseRow EXCEPT !.lap = Num(2), !.timestamp_ms = Null]}

AirCells == {Null, Str(Text("abc")), Str(Text("15")), Str(Text("-1")),
             Num(-1), Num(0), Num(15), Num(30), Num(31)}
TrackCells == {Null, Num(-21), Num(-20), Num(80), Num(81)}
SocCells == {Null, Num(0), Num(1), Num(40), Num(41)}
FuelCells == {Null, Str(Text("abc")), Num(-1), Num(0)}
TyreCells == {Null, Str(Chars("Soft")), Str(Text("soft")), Str(Text(" Soft ")),
              Str(Text("MEDIUM")), Str(Chars("Wet")), Str(Text("Slick"))}
WetTyreCells == {Null, Str(Text("dry")), Str(Chars("wet")), Str(Text("WET")),
                 Str(Text(" Wet "))}
SensorCells == {Null, Str(Text("abc")), Str(Text("150")),
                Num(50), Num(100), Num(250), Num(251), Num(9999)}

Lap(l, t) == [BaseRow EXCEPT !.lap = Num(l), !.timestamp_ms = Num(t)]

(* Named datasets: laps 1,2,3,2,5 of one car in input order; two keys *)
(* duplicated, one of them three times.                               *)
Examples ==
    {<<Lap(1, 1), Lap(2, 2), Lap(3, 3), Lap(2, 4), Lap(5, 5)>>,
     <<Lap(2, 1), Lap(1, 2), Lap(2, 3), Lap(1, 4), Lap(1, 5)>>}

Datasets ==
    SeqsUpTo(KeyRows, MaxRows)
    \cup SeqsUpTo({[BaseRow EXCEPT !.air_temp_c = v] : v \in AirCells}, MaxCellRows)
    \cup SeqsUpTo({[BaseRow EXCEPT !.track_temp_c = v] : v \in TrackCells}, MaxCellRows)
    \cup SeqsUpTo({[BaseRow EXCEPT !.battery_soc = v] : v \in SocCells}, MaxCellRows)
    \cup SeqsUpTo({[BaseRow EXCEPT !.fuel_kg = v] : v \in FuelCells}, MaxCellRows)
    \cup SeqsUpTo({[BaseRow EXCEPT !.tyre = v] : v \in TyreCells}, MaxCellRows)
    \cup SeqsUpTo({[BaseRow EXCEPT !.tyre = v, !.sensor_0008_val = s] :
                      v \in WetTyreCells, s \in SensorCells}, MaxPairRows)
    \cup Examples

---------------------------------------------------------------------------
(* The script, from the load to the report *)

Init ==
    /\ \/ columns = AllCols /\ rows \in Datasets
       \/ /\ columns \in {AllCols \ m : m \in {s \in SUBSET AllCols : Cardinality(s) <= MaxMissing}}
          /\ rows = <<BaseRow>>
    /\ results = <<>>
    /\ written = {}
    /\ report = <<>>
    /\ pc = "required"
    /\ run = 1
    /\ prev = <<>>

(* add_result, then on to the statement at `next`. *)
Report(name, df_count, sample_cols, note, next) ==
    /\ results' = add_result(results, name, df_count, sample_cols, note)
    /\ written' = Exported(written, name, df_count)
    /\ pc' = next
    /\ UNCHANGED <<columns, rows, report, run, prev>>

(* An uncaught AnalysisException: the column a filter names is not in df. *)
Crash ==
    /\ pc' = "crashed"
    /\ UNCHANGED <<columns, rows, results, written, report, run, prev>>

RequiredColumns ==
    /\ pc = "required"
    /\ IF missing(columns) = <<>>
       THEN Report("required_columns_present", Count(0), <<>>,
                   Note("All present", <<>>), "pk")
       ELSE Report("required_columns_present", Count(1), <<>>,
                   Note("Missing: ", missing(columns)), "pk")

PkUnique ==
    /\ pc = "pk"
    /\ IF ToSet(pk) \subseteq columns
       THEN \E o \in Orderings(dupes(rows)) :
               Report("pk_unique", Frame(o, ToSet(pk) \cup {"count"}),
                      pk \o <<"count">>, NoNote, "ts_format")
       ELSE \E o \in Orderings(ToSet(pk) \ columns) :
               Report("pk_unique", Count(1), <<>>,
                      Note("Missing PK cols: ", o), "ts_format")

TimestampFormat ==
    /\ pc = "ts_format"
    /\ IF "timestamp_ms" \notin columns
       THEN Crash
       ELSE Report("timestamp_ms_is_13_digits", Frame(bad_ts(rows), columns),
                   <<"event_id", "lap", "timestamp_ms">>, NoNote, "lap_back")

LapNotDecreasing ==
    /\ pc = "lap_back"
    /\ IF ToSet(need) \subseteq columns
       THEN \E o \in WindowOrders(rows) :
               Report("lap_not_decreasing_per_car",
                      Frame(lap_back(d2(rows, o)), d2_cols(columns)),
                      <<"event_id", "session", "car_no", "prev_lap", "lap">>,
                      NoNote, "ts_back")
       ELSE Report("lap_not_decreasing_per_car", Count(1), <<>>,
                   Note("missing columns", <<>>), "ts_back")

TimestampNotDecreasing ==
    /\ pc = "ts_back"
    /\ IF ToSet(need) \subseteq columns
       THEN \E o \in WindowOrders(rows) :
               Report("timestamp_not_decreasing_per_car",
                      Frame(ts_back(d2(rows, o)), d2_cols(columns)),
                      <<"event_id", "session", "car_no", "prev_ts", "timestamp_ms">>,
                      NoNote, "ranges")
       ELSE Report("timestamp_not_decreasing_per_car", Count(1), <<>>,
                   Note("missing columns", <<>>), "ranges")

(* Lines 132-142 build the four range filters before any is reported. *)
RangeFilters ==
    /\ pc = "ranges"
    /\ IF {"air_temp_c", "track_temp_c", "battery_soc", "fuel_kg"} \subseteq columns
       THEN /\ pc' = "air"
            /\ UNCHANGED <<columns, rows, results, written, report, run, prev>>
       ELSE Crash

AirTemp ==
    /\ pc = "air"
    /\ Report("air_temp_c_in_0_30", Frame(bad_air(rows), columns),
              <<"event_id", "lap", "air_temp_c">>, NoNote, "track")

TrackTemp ==
    /\ pc = "track"
    /\ Report("track_temp_c_in_-20_80", Frame(bad_track(rows), columns),
              <<"event_id", "lap", "track_temp_c">>, NoNote, "soc")

BatterySoc ==
    /\ pc = "soc"
    /\ Report("battery_soc_in_0.6_40", Frame(bad_soc(rows), columns),
              <<"event_id", "lap", "battery_soc">>, NoNote, "fuel")

FuelKg ==
    /\ pc = "fuel"
    /\ Report("fuel_kg_non_negative", Frame(bad_fuel(rows), columns),
              <<"event_id", "lap", "fuel_kg">>, NoNote, "wet")

WetSensor ==
    /\ pc = "wet"
    /\ IF "tyre" \in columns /\ "sensor_0008_val" \in columns
       THEN Report("if_wet_then_sensor_0008_val_100_250", Frame(bad_wet(rows), columns),
                   <<"event_id", "lap", "tyre", "sensor_0008_val">>, NoNote, "tyre")
       ELSE Report("if_wet_then_sensor_0008_val_100_250", Count(1), <<>>,
                   Note("missing tyre or sensor_0008_val", <<>>), "tyre")

TyreDomain ==
    /\ pc = "tyre"
    /\ IF "tyre" \in columns
       THEN Report("tyre_in_domain", Frame(bad_tyre(rows), columns),
                   <<"event_id", "lap", "tyre">>, Note("Allowed: ", allowed), "html")
       ELSE Report("tyre_in_domain", Count(1), <<>>, Note("missing tyre", <<>>), "html")

WriteHtml ==
    /\ pc = "html"
    /\ report' = [i \in DOMAIN results |-> summary_row(results[i])]
    /\ pc' = "done"
    /\ UNCHANGED <<columns, rows, results, written, run, prev>>

(* The script is started again on the same file; dq_report stays on disk. *)
Rerun ==
    /\ pc = "done"
    /\ run = 1
    /\ run' = 2
    /\ prev' = results
    /\ results' = <<>>
    /\ report' = <<>>
    /\ pc' = "required"
    /\ UNCHANGED <<columns, rows, written>>

Next ==
    \/ RequiredColumns
    \/ PkUnique
    \/ TimestampFormat
    \/ LapNotDecreasing
    \/ TimestampNotDecreasing
    \/ RangeFilters
    \/ AirTemp
    \/ TrackTemp
    \/ BatterySoc
    \/ FuelKg
    \/ WetSensor
    \/ TyreDomain
    \/ WriteHtml
    \/ Rerun

Spec == Init /\ [][Next]_vars

---------------------------------------------------------------------------
(* Properties *)

(* The results of the check called name, in the current run. *)
Named(name) == {results[i] : i \in {j \in DOMAIN results : results[j].name = name}}

(* The first rows of bad, cut down to the columns cs, as a sample shows them. *)
Sampled(bad, cs) == [i \in 1..Min(20, Len(bad)) |-> [c \in cs |-> bad[i][c]]]

(* C1: every result, of this run or the previous one, whether built from *)
(* an integer or from a frame of violating rows, has status PASS exactly *)
(* when its violation count is 0, and FAIL otherwise.                    *)
C1_StatusIffZero ==
    \A rs \in {results, prev} : \A i \in DOMAIN rs :
        /\ rs[i].status \in {"PASS", "FAIL"}
        /\ rs[i].status = "PASS" <=> rs[i].violations = 0

(* A finished run with a passing check, a failing check built from       *)
(* violating rows, and a failing check built from an integer.            *)
C1_Witness ==
    /\ pc = "done"
    /\ \E i, j, l \in DOMAIN results :
        /\ results[i].status = "PASS"
        /\ results[j].status = "FAIL" /\ results[j].csv # None
        /\ results[l].status = "FAIL" /\ results[l].csv = None

(* The columns each check reads. *)
Reads(name) ==
    CASE name = "required_columns_present" -> ToSet(required)
      [] name = "pk_unique" -> ToSet(pk)
      [] name = "timestamp_ms_is_13_digits" -> {"timestamp_ms"}
      [] name = "lap_not_decreasing_per_car" -> ToSet(need)
      [] name = "timestamp_not_decreasing_per_car" -> ToSet(need)
      [] name = "air_temp_c_in_0_30" -> {"air_temp_c"}
      [] name = "track_temp_c_in_-20_80" -> {"track_temp_c"}
      [] name = "battery_soc_in_0.6_40" -> {"battery_soc"}
      [] name = "fuel_kg_non_negative" -> {"fuel_kg"}
      [] name = "if_wet_then_sensor_0008_val_100_250" -> {"tyre", "sensor_0008_val"}
      [] name = "tyre_in_domain" -> {"tyre"}

CheckNames ==
    {"required_columns_present", "pk_unique", "timestamp_ms_is_13_digits",
     "lap_not_decreasing_per_car", "timestamp_not_decreasing_per_car",
     "air_temp_c_in_0_30", "track_temp_c_in_-20_80", "battery_soc_in_0.6_40",
     "fuel_kg_non_negative", "if_wet_then_sensor_0008_val_100_250", "tyre_in_domain"}

(* C2: whatever columns are absent, the run never aborts, and once the   *)
(* checks are over every declared check has a result; a check that reads *)
(* an absent column is reported as one synthetic violation with a note.  *)
C2_AbsentColumnNeverAborts ==
    /\ pc # "crashed"
    /\ pc \in {"html", "done"} =>
        /\ Len(results) = Cardinality(CheckNames)
        /\ \A n \in CheckNames : \E r \in Named(n) :
              ~(Reads(n) \subseteq columns) =>
                  /\ r.violations = 1
                  /\ r.status = "FAIL"
                  /\ r.note # NoNote

(* The key of row i of df, and the rows sharing it. *)
KeyOf(i) == <<rows[i].event_id, rows[i].session, rows[i].car_no, rows[i].lap>>
SameKey(i) == {j \in DOMAIN rows : KeyOf(j) = KeyOf(i)}

(* C3 as stated: pk_unique counts the rows that belong to a key group of *)
(* more than one row, so one duplicate pair gives 2.                     *)
C3_CountsDuplicatedRows ==
    ToSet(pk) \subseteq columns =>
        \A r \in Named("pk_unique") :
            r.violations = Cardinality({i \in DOMAIN rows : Cardinality(SameKey(i)) > 1})

(* C3 amended: pk_unique counts the distinct keys that more than one row *)
(* has: 0 when no two rows share a key, 1 for one duplicate pair; each   *)
(* sampled row is such a key with the number of rows that have it.       *)
C3_CountsDuplicatedKeys ==
    ToSet(pk) \subseteq columns =>
        \A r \in Named("pk_unique") :
            /\ r.violations =
                 Cardinality({KeyOf(i) : i \in {j \in DOMAIN rows : Cardinality(SameKey(j)) > 1}})
            /\ \A s \in ToSet(r.sample) :
                 \E i \in DOMAIN rows :
                    /\ <<s.event_id, s.session, s.car_no, s.lap>> = KeyOf(i)
                    /\ s["count"] = Num(Cardinality(SameKey(i)))
                    /\ Cardinality(SameKey(i)) > 1

(* pk_unique has run on a dataset with exactly one duplicate pair. *)
C3_Witness ==
    /\ ToSet(pk) \subseteq columns
    /\ Named("pk_unique") # {}
    /\ Cardinality({i \in DOMAIN rows : Cardinality(SameKey(i)) > 1}) = 2
    /\ Len(rows) = 3

(* The partition of row i, and the row before it in its partition in *)
(* input order (0 if it is the first).                               *)
PartOf(i) == <<rows[i].event_id, rows[i].session, rows[i].car_no>>
InputPred(i) ==
    LET before == {j \in 1..(i - 1) : PartOf(j) = PartOf(i)}
    IN  IF before = {} THEN 0 ELSE CHOOSE j \in before : \A l \in before : l <= j

(* C4: lap_not_decreasing_per_car counts the rows whose lap is less than *)
(* the lap of the row just before them in their partition, in input      *)
(* order: laps 1,2,3,2,5 give 1.                                         *)
C4_CountsLapDecreases ==
    ToSet(need) \subseteq columns =>
        \A r \in Named("lap_not_decreasing_per_car") :
            r.violations =
                Cardinality({i \in DOMAIN rows :
                    /\ InputPred(i) # 0
                    /\ Lt3(CastLong(rows[i].lap), CastLong(rows[InputPred(i)].lap)) = "true"})

(* The numeric value of a cell, if it has one. *)
Numeric(v) == ~IsNull(CastDouble(v))
Value(v) == CastDouble(v).n

AirViolation(r) ==
    \/ IsNull(r.air_temp_c)
    \/ ~Numeric(r.air_temp_c)
    \/ Value(r.air_temp_c) < 0
    \/ Value(r.air_temp_c) > 30

(* C5: a row is a violation of air_temp_c_in_0_30 exactly if its         *)
(* air_temp_c is null, not a number, or outside [0, 30]: -1, 31 and null *)
(* are violations, 0, 15 and 30 are not, text that is no number is.      *)
C5_AirRange ==
    "air_temp_c" \in columns =>
        \A r \in Named("air_temp_c_in_0_30") :
            /\ r.violations = Len(SelectSeq(rows, AirViolation))
            /\ r.sample = Sampled(SelectSeq(rows, AirViolation),
                                  {"event_id", "lap", "air_temp_c"} \cap columns)
            /\ \A i \in DOMAIN rows :
                /\ rows[i].air_temp_c \in {Num(-1), Num(31), Null, Str(Text("abc"))}
                      => AirViolation(rows[i])
                /\ rows[i].air_temp_c \in {Num(0), Num(15), Num(30)} => ~AirViolation(rows[i])

(* The air check has run on two rows, one in range and one not. *)
C5_Witness ==
    /\ Named("air_temp_c_in_0_30") # {}
    /\ Len(rows) = 2
    /\ rows[1].air_temp_c = Num(30)
    /\ rows[2].air_temp_c \in {Null, Num(31), Str(Text("abc"))}

WetViolation(r) ==
    /\ ~IsNull(r.tyre)
    /\ LowerText(TrimText(r.tyre.s)) = <<"w", "e", "t">>
    /\ \/ IsNull(r.sensor_0008_val)
       \/ ~Numeric(r.sensor_0008_val)
       \/ Value(r.sensor_0008_val) < 100
       \/ Value(r.sensor_0008_val) > 250

(* C6: a row is a violation of the wet check exactly if its tyre,       *)
(* trimmed and lower-cased, is "wet" and its sensor_0008_val is null,   *)
(* not a number or outside [100, 250]: dry with 9999 is none; wet, WET  *)
(* and " Wet " with 50 are.                                             *)
C6_WetImpliesSensorRange ==
    ("tyre" \in columns /\ "sensor_0008_val" \in columns) =>
        \A r \in Named("if_wet_then_sensor_0008_val_100_250") :
            /\ r.violations = Len(SelectSeq(rows, WetViolation))
            /\ r.sample = Sampled(SelectSeq(rows, WetViolation),
                                  {"event_id", "lap", "tyre", "sensor_0008_val"} \cap columns)
            /\ \A i \in DOMAIN rows :
                /\ (rows[i].tyre = Str(Text("dry")) /\ rows[i].sensor_0008_val = Num(9999))
                      => ~WetViolation(rows[i])
                /\ (/\ rows[i].tyre \in {Str(Chars("wet")), Str(Text("WET")), Str(Text(" Wet "))}
                    /\ rows[i].sensor_0008_val = Num(50))
                      => WetViolation(rows[i])

(* The wet check has flagged a row whose tyre is " Wet ". *)
C6_Witness ==
    /\ Len(rows) = 1
    /\ rows[1].tyre = Str(Text(" Wet "))
    /\ rows[1].sensor_0008_val = Num(50)
    /\ \E r \in Named("if_wet_then_sensor_0008_val_100_250") : r.violations = 1

TyreViolation(r) ==
    \/ IsNull(r.tyre)
    \/ LowerText(TrimText(r.tyre.s)) \notin
          {<<"s", "o", "f", "t">>, <<"m", "e", "d", "i", "u", "m">>, <<"h", "a", "r", "d">>,
           <<"w", "e", "t">>,
           <<"i", "n", "t", "e", "r", "m", "e", "d", "i", "a", "t", "e">>}

(* C7: a row is a violation of tyre_in_domain exactly if its tyre,      *)
(* trimmed and case-folded, is not one of soft, medium, hard, wet,      *)
(* intermediate; " Soft " passes, a null tyre is a violation.           *)
C7_TyreDomainTrimmed ==
    "tyre" \in columns =>
        \A r \in Named("tyre_in_domain") :
            r.violations = Len(SelectSeq(rows, TyreViolation))

(* C8: required_columns_present has 0 violations if no required column  *)
(* is absent and exactly 1 otherwise, however many are; its note names  *)
(* exactly the absent required columns; it has no sample and no export. *)
C8_RequiredColumns ==
    \A r \in Named("required_columns_present") :
        LET absent == {"event_id", "session", "lap", "timestamp_ms", "driver", "team",
                       "car_no", "tyre"} \ columns
        IN  /\ r.violations = IF absent = {} THEN 0 ELSE 1
            /\ ToSet(r.note.cols) = absent
            /\ Len(r.note.cols) = Cardinality(absent)
            /\ absent = {} <=> r.note.text = "All present"
            /\ r.sample = <<>>
            /\ r.csv = None

(* The presence check has run with two or more required columns absent. *)
C8_Witness ==
    /\ Named("required_columns_present") # {}
    /\ Cardinality(ToSet(required) \ columns) >= 2

(* C9: a second run on the same dataset reports the same checks in the  *)
(* same order with the same counts and the same sample rows in the same *)
(* order.                                                               *)
C9_SecondRunIdentical ==
    (run = 2 /\ pc = "done") =>
        /\ Len(results) = Len(prev)
        /\ \A i \in DOMAIN results :
            /\ results[i].name = prev[i].name
            /\ results[i].violations = prev[i].violations
            /\ results[i].sample = prev[i].sample

(* Row i comes before row j when the rows are sorted by lap, nulls      *)
(* first, rows with equal laps in input order.                          *)
LapOf(i) == CastLong(rows[i].lap)
StableBefore(i, j) ==
    \/ OrderedBefore(LapOf(i), LapOf(j))
    \/ ~OrderedBefore(LapOf(j), LapOf(i)) /\ i < j
StablePred(i) ==
    LET before == {j \in DOMAIN rows : j # i /\ PartOf(j) = PartOf(i) /\ StableBefore(j, i)}
    IN  IF before = {} THEN 0
        ELSE CHOOSE j \in before : \A l \in before : l = j \/ StableBefore(l, j)

(* C10: timestamp_not_decreasing_per_car flags exactly the rows that    *)
(* have a predecessor in their partition, sorted by lap with equal laps *)
(* in input order, and a timestamp_ms less than that predecessor's.     *)
C10_TimestampBackStableTies ==
    ToSet(need) \subseteq columns =>
        \A r \in Named("timestamp_not_decreasing_per_car") :
            r.violations =
                Cardinality({i \in DOMAIN rows :
                    /\ StablePred(i) # 0
                    /\ Lt3(CastLong(rows[i].timestamp_ms),
                           CastLong(rows[StablePred(i)].timestamp_ms)) = "true"})

=============================================================================
